---- MODULE Spec2Model ----
(***************************************************************************)
(* Path-addressing utilities of nodejs-code-snippets: combineEmpty, toPath, *)
(* get / processWildcardGet and pick / processWildcardPath.                *)
(*                                                                         *)
(* JavaScript values are tagged records:                                   *)
(*   undefined, null, number n, string s, object (a function from own      *)
(*   property names to values, a present property may hold undefined),     *)
(*   array (a sequence of values).                                         *)
(* Path segments are strings; a path is a sequence of segments.            *)
(***************************************************************************)
EXTENDS Integers, Sequences, FiniteSets, TLC

VARIABLES fn, arr, object, path, paths, defaultValue, result, pathValue, string, lastIndex,
          heap, ret,
          log, now, step, candidate, previousHandled, processed, termId

\* the scheduler_leader_log table, the clock, and the node that becomes leader
leaderVars == <<log, now, step, candidate, previousHandled, processed, termId>>

vars == <<fn, arr, object, path, paths, defaultValue, result, pathValue, string, lastIndex,
          heap, ret, leaderVars>>

(***************************************************************************)
(* Bounds of the model.                                                    *)
(***************************************************************************)
\* longest input of combineEmpty
MaxLen == 4
\* longest array inside a source object
MaxArrLen == 2
\* longest segment sequence handed to get
MaxPathLen == 5
\* most paths in one call of pick
MaxPaths == 2
\* longest enumerated path string
MaxStrLen == 4
\* most consecutive wildcard markers in a path string
MaxWildcards == 3
\* most leadership terms in the log
MaxTerms == 4
\* last reading of the clock
MaxTime == 12

(***************************************************************************)
(* JavaScript values.                                                      *)
(***************************************************************************)
Undefined == [t |-> "undefined"]
Null == [t |-> "null"]
Num(n) == [t |-> "number", n |-> n]
Str(s) == [t |-> "string", s |-> s]
Obj(f) == [t |-> "object", f |-> f]
Arr(e) == [t |-> "array", e |-> e]
\* the outcome of reading a property of null or undefined
TypeError == [t |-> "TypeError"]

NoProps == [k \in {} |-> Undefined]
EmptyObj == Obj(NoProps)
EmptyArr == Arr(<<>>)

\* x == null  (loose equality: null or undefined)
IsNullish(v) == v = Null \/ v = Undefined
\* Array.isArray(x)
IsArray(v) == v.t = "array"
IsObject(v) == v.t = "object"

\* the array index a canonical numeric property name denotes, -1 for any other name
IndexOf(key) ==
  CASE key = "0" -> 0
    [] key = "1" -> 1
    [] key = "2" -> 2
    [] key = "3" -> 3
    [] OTHER -> -1

\* current[key]: own properties of objects, elements and length of arrays;
\* a number or string has none of the data keys used here; null and undefined
\* throw, and what is computed from a thrown error is that error
Prop(v, key) ==
  CASE IsNullish(v) -> TypeError
    [] v = TypeError -> TypeError
    [] IsObject(v) -> IF key \in DOMAIN v.f THEN v.f[key] ELSE Undefined
    [] IsArray(v) ->
         IF key = "length" THEN Num(Len(v.e))
         ELSE IF IndexOf(key) >= 0 /\ IndexOf(key) < Len(v.e) THEN v.e[IndexOf(key) + 1]
         ELSE Undefined
    [] OTHER -> Undefined

\* keys.includes('[]')
HasWildcard(keys) == \E i \in 1..Len(keys) : keys[i] = "[]"

\* xs.filter(x => x !== undefined)
RECURSIVE FilterDefined(_)
FilterDefined(xs) ==
  IF xs = <<>> THEN <<>>
  ELSE IF Head(xs) # Undefined THEN <<Head(xs)>> \o FilterDefined(Tail(xs))
  ELSE FilterDefined(Tail(xs))

(***************************************************************************)
(* combineEmpty (src/combineEmpty.ts).                                     *)
(***************************************************************************)
\* '.'.repeat(n)
RECURSIVE Repeat(_)
Repeat(n) == IF n <= 0 THEN "" ELSE "." \o Repeat(n - 1)

\* combineEmptyLoop with the reset of emptyCount after a combined push left out
RECURSIVE combineEmptyLoop_noReset(_, _, _, _)
combineEmptyLoop_noReset(a, i, res, emptyCount) ==
  IF i > Len(a)
  THEN IF emptyCount > 0 THEN Append(res, Repeat(emptyCount)) ELSE res
  ELSE IF a[i] = ""
       THEN combineEmptyLoop_noReset(a, i + 1, res, emptyCount + 1)
       ELSE IF emptyCount > 0
            THEN combineEmptyLoop_noReset(a, i + 1, Append(res, Repeat(emptyCount) \o a[i]), emptyCount)
            ELSE combineEmptyLoop_noReset(a, i + 1, Append(res, a[i]), 0)

\* combineEmptyLoop without the push of an item that follows no empty item
RECURSIVE combineEmptyLoop_noPlainPush(_, _, _, _)
combineEmptyLoop_noPlainPush(a, i, res, emptyCount) ==
  IF i > Len(a)
  THEN IF emptyCount > 0 THEN Append(res, Repeat(emptyCount)) ELSE res
  ELSE IF a[i] = ""
       THEN combineEmptyLoop_noPlainPush(a, i + 1, res, emptyCount + 1)
       ELSE IF emptyCount > 0
            THEN combineEmptyLoop_noPlainPush(a, i + 1, Append(res, Repeat(emptyCount) \o a[i]), 0)
            ELSE combineEmptyLoop_noPlainPush(a, i + 1, res, 0)

\* the for-of loop from item i on, with the loop's two locals, then the trailing push
\* combineEmptyLoop with one '.' too few in the trailing push
RECURSIVE combineEmptyLoop_trailingOneShort(_, _, _, _)
combineEmptyLoop_trailingOneShort(a, i, res, emptyCount) ==
  IF i > Len(a)
  THEN IF emptyCount > 0 THEN Append(res, Repeat(emptyCount - 1)) ELSE res
  ELSE IF a[i] = ""
       THEN combineEmptyLoop_trailingOneShort(a, i + 1, res, emptyCount + 1)
       ELSE IF emptyCount > 0
            THEN combineEmptyLoop_trailingOneShort(a, i + 1,
                                                   Append(res, Repeat(emptyCount) \o a[i]), 0)
            ELSE combineEmptyLoop_trailingOneShort(a, i + 1, Append(res, a[i]), 0)

RECURSIVE combineEmptyLoop(_, _, _, _)
combineEmptyLoop(a, i, res, emptyCount) ==
  IF i > Len(a)
  THEN IF emptyCount > 0 THEN Append(res, Repeat(emptyCount)) ELSE res
  ELSE IF a[i] = ""
       THEN combineEmptyLoop(a, i + 1, res, emptyCount + 1)
       ELSE IF emptyCount > 0
            THEN combineEmptyLoop(a, i + 1, Append(res, Repeat(emptyCount) \o a[i]), 0)
            ELSE combineEmptyLoop(a, i + 1, Append(res, a[i]), 0)

combineEmpty(a) == combineEmptyLoop(a, 1, <<>>, 0)

(***************************************************************************)
(* Path strings and the regular expression rePropName                      *)
(* (src/unnamed/part_010).  A path string is the sequence of its           *)
(* characters; positions are 0-based as in the source.  A segment is a     *)
(* string, the concatenation of the characters matched.                    *)
(***************************************************************************)
\* a path string given as argument (a string value)
Text(cs) == [t |-> "string", chars |-> cs]
IsText(v) == v.t = "string" /\ "chars" \in DOMAIN v

\* string[i], "" past the end
CharAt(s, i) == IF i >= 0 /\ i < Len(s) THEN s[i + 1] ELSE ""
\* string.slice(i, j) as a string value
RECURSIVE Join(_)
Join(cs) == IF cs = <<>> THEN "" ELSE Head(cs) \o Join(Tail(cs))
Slice(s, i, j) == SubSeq(s, i + 1, j)

\* \d
IsDigit(c) == c \in {"0", "1", "2", "3", "4", "5", "6", "7", "8", "9"}
\* [^.[\]]
IsNameChar(c) == c # "" /\ c \notin {".", "[", "]"}

\* string.replace(/\\(\\)?/g, '$1'): a backslash is dropped, a pair of them is one
RECURSIVE Unescape(_)
Unescape(s) ==
  IF s = <<>> THEN <<>>
  ELSE IF Head(s) # "\\" THEN <<Head(s)>> \o Unescape(Tail(s))
  ELSE IF Len(s) >= 2 /\ s[2] = "\\" THEN <<"\\">> \o Unescape(SubSeq(s, 3, Len(s)))
  ELSE Unescape(Tail(s))

\* where the longest run of digits starting at i ends
DigitsEnd(s, i) ==
  CHOOSE j \in i..Len(s) :
    /\ \A k \in i..(j - 1) : IsDigit(CharAt(s, k))
    /\ ~IsDigit(CharAt(s, j))
\* [^.[\]]+ : where the longest run of name characters starting at i ends
NameEnd(s, i) ==
  CHOOSE j \in i..Len(s) :
    /\ \A k \in i..(j - 1) : IsNameChar(CharAt(s, k))
    /\ ~IsNameChar(CharAt(s, j))

\* -?\d+(?:\.\d+)? followed by \] : the position after the number when the
\* number starting at i is followed by ']', -1 otherwise
NumberEnd(s, i) ==
  LET d0 == IF CharAt(s, i) = "-" THEN i + 1 ELSE i
      d1 == DigitsEnd(s, d0)
      d2 == DigitsEnd(s, d1 + 1)
  IN IF d1 = d0 THEN -1
     ELSE IF CharAt(s, d1) = "." /\ d2 > d1 + 1 /\ CharAt(s, d2) = "]" THEN d2
     ELSE IF CharAt(s, d1) = "]" THEN d1
     ELSE -1

\* ((?:(?!\2)[^\\]|\\.)*?)\2 : the position of the closing quote q of the
\* content starting at j, -1 when the string ends before it
RECURSIVE QuoteEnd(_, _, _)
QuoteEnd(s, j, q) ==
  IF j >= Len(s) THEN -1
  ELSE IF CharAt(s, j) = q THEN j
  ELSE IF CharAt(s, j) = "\\"
       THEN IF j + 1 < Len(s) THEN QuoteEnd(s, j + 2, q) ELSE -1
       ELSE QuoteEnd(s, j + 1, q)

\* (?=(?:\.|\[\])(?:\.|\[\]|$)) at position i
Lookahead(s, i) ==
  LET first == IF CharAt(s, i) = "." THEN 1
               ELSE IF CharAt(s, i) = "[" /\ CharAt(s, i + 1) = "]" THEN 2
               ELSE 0
      j == i + first
  IN /\ first > 0
     /\ \/ j = Len(s)
        \/ CharAt(s, j) = "."
        \/ CharAt(s, j) = "[" /\ CharAt(s, j + 1) = "]"

\* a match: where it starts and ends, match[0], and the groups 1 (number),
\* 2 (quote) and 3 (quoted content), "" for a group that did not take part
NoMatch == [ok |-> FALSE]
Match(i, j, all, number, quote, subString) ==
  [ok |-> TRUE, index |-> i, end |-> j, all |-> all,
   number |-> number, quote |-> quote, subString |-> subString]

\* the alternatives of rePropName tried in order at position i; wildcard tells
\* whether the alternative \[\] is part of the expression
MatchAt(s, i, wildcard) ==
  IF IsNameChar(CharAt(s, i))
  THEN Match(i, NameEnd(s, i), Join(Slice(s, i, NameEnd(s, i))), "", "", "")
  ELSE IF wildcard /\ CharAt(s, i) = "[" /\ CharAt(s, i + 1) = "]"
  THEN Match(i, i + 2, "[]", "", "", "")
  ELSE IF CharAt(s, i) = "[" /\ NumberEnd(s, i + 1) >= 0
  THEN LET e == NumberEnd(s, i + 1)
       IN Match(i, e + 1, Join(Slice(s, i, e + 1)), Join(Slice(s, i + 1, e)), "", "")
  ELSE IF /\ CharAt(s, i) = "["
          /\ CharAt(s, i + 1) \in {"\"", "'"}
          /\ QuoteEnd(s, i + 2, CharAt(s, i + 1)) >= 0
          /\ CharAt(s, QuoteEnd(s, i + 2, CharAt(s, i + 1)) + 1) = "]"
  THEN LET e == QuoteEnd(s, i + 2, CharAt(s, i + 1))
       IN Match(i, e + 2, Join(Slice(s, i, e + 2)), "", CharAt(s, i + 1),
                Join(Slice(s, i + 2, e)))
  ELSE IF Lookahead(s, i)
  THEN Match(i, i, "", "", "", "")
  ELSE NoMatch

\* rePropName.exec(string) with lastIndex = from: the first position from there
\* on at which the expression matches
Exec(s, from, wildcard) ==
  LET at == {i \in from..Len(s) : MatchAt(s, i, wildcard).ok}
  IN IF at = {} THEN NoMatch
     ELSE MatchAt(s, CHOOSE i \in at : \A j \in at : i <= j, wildcard)

\* match[0] === '[]' ? '[]' : (match[1] || match[3] || '')
KeyOf(m) ==
  IF m.all = "[]" THEN "[]"
  ELSE IF m.number # "" THEN m.number
  ELSE IF m.subString # "" THEN m.subString
  ELSE ""

(***************************************************************************)
(* toPath on a path given as an array of segments: a copy of the array.    *)
(***************************************************************************)
toPath(value) == [i \in 1..Len(value) |-> value[i]]

(***************************************************************************)
(* superToPath (src/unnamed/part_009) and the toPath of lodash it imports. *)
(* lodash scans with the same expression without the alternative \[\], by  *)
(* string.replace (which steps over an empty match), and takes as key the  *)
(* unescaped quoted content, else the number, else the whole match; a path *)
(* that starts with '.' gets a leading empty key.                          *)
(***************************************************************************)
RECURSIVE lodashReplaceLoop(_, _, _)
lodashReplaceLoop(s, from, res) ==
  IF from > Len(s) THEN res
  ELSE LET m == Exec(s, from, FALSE) IN
       IF ~m.ok THEN res
       ELSE lodashReplaceLoop(s, IF m.end = m.index THEN m.end + 1 ELSE m.end,
              Append(res, IF m.quote # "" THEN Join(Unescape(Slice(s, m.index + 2, m.end - 2)))
                          ELSE IF m.number # "" THEN m.number
                          ELSE m.all))

lodashToPath(value) ==
  IF IsArray(value) THEN [i \in 1..Len(value.e) |-> value.e[i]]
  ELSE lodashReplaceLoop(value.chars, 0, IF CharAt(value.chars, 0) = "." THEN <<"">> ELSE <<>>)

\* value.split('.[].') from position i on, the current piece starting at start
RECURSIVE splitLoop(_, _, _)
splitLoop(s, start, i) ==
  IF i + 4 <= Len(s) /\ Slice(s, i, i + 4) = <<".", "[", "]", ".">>
  THEN <<Slice(s, start, i)>> \o splitLoop(s, i + 4, i + 4)
  ELSE IF i >= Len(s) THEN <<Slice(s, start, Len(s))>>
  ELSE splitLoop(s, start, i + 1)

\* segments.forEach from piece k (1-based) on
RECURSIVE superToPathLoop(_, _, _)
superToPathLoop(segments, k, res) ==
  IF k > Len(segments) THEN res
  ELSE LET pushed == res \o (IF segments[k] # <<>>
                             THEN combineEmpty(lodashToPath(Text(segments[k])))
                             ELSE combineEmpty(<<"">>))
       IN superToPathLoop(segments, k + 1,
                          IF k < Len(segments) THEN Append(pushed, "[]") ELSE pushed)

superToPath(value) ==
  IF IsArray(value) THEN combineEmpty(lodashToPath(value))
  ELSE IF IsNullish(value) THEN <<>>
  ELSE superToPathLoop(splitLoop(value.chars, 0, 0), 1, <<>>)

(***************************************************************************)
(* get / processWildcardGet, the nested variant (src/unnamed/part_003).    *)
(* index is 0-based as in the source; keys[index + 1] is its segment.      *)
(***************************************************************************)
\* processWildcardGet without the filter of undefined entries
RECURSIVE processWildcardGet_noFilter(_, _, _)
processWildcardGet_noFilter(current, keys, index) ==
  IF IsNullish(current) \/ index >= Len(keys) THEN Undefined
  ELSE LET key == keys[index + 1] IN
    IF key # "[]"
    THEN IF index = Len(keys) - 1
         THEN IF Prop(current, key) # Undefined
              THEN Arr(<<Prop(current, key)>>)
              ELSE Undefined
         ELSE processWildcardGet_noFilter(Prop(current, key), keys, index + 1)
    ELSE IF ~IsArray(current) THEN Undefined
    ELSE LET res == [i \in 1..Len(current.e) |->
                         processWildcardGet_noFilter(current.e[i], keys, index + 1)]
         IN IF Len(res) > 0 THEN Arr(res) ELSE Undefined

\* processWildcardGet returning an empty sequence instead of undefined
RECURSIVE processWildcardGet_noCollapse(_, _, _)
processWildcardGet_noCollapse(current, keys, index) ==
  IF IsNullish(current) \/ index >= Len(keys) THEN Undefined
  ELSE LET key == keys[index + 1] IN
    IF key # "[]"
    THEN IF index = Len(keys) - 1
         THEN IF Prop(current, key) # Undefined
              THEN Arr(<<Prop(current, key)>>)
              ELSE Undefined
         ELSE processWildcardGet_noCollapse(Prop(current, key), keys, index + 1)
    ELSE IF ~IsArray(current) THEN Undefined
    ELSE LET res == FilterDefined(
                      [i \in 1..Len(current.e) |->
                         processWildcardGet_noCollapse(current.e[i], keys, index + 1)])
         IN Arr(res)

\* processWildcardGet taking a non-array under a wildcard as its own only element
RECURSIVE processWildcardGet_noArrayCheck(_, _, _)
processWildcardGet_noArrayCheck(current, keys, index) ==
  IF IsNullish(current) \/ index >= Len(keys) THEN Undefined
  ELSE LET key == keys[index + 1] IN
    IF key # "[]"
    THEN IF index = Len(keys) - 1
         THEN IF Prop(current, key) # Undefined
              THEN Arr(<<Prop(current, key)>>)
              ELSE Undefined
         ELSE processWildcardGet_noArrayCheck(Prop(current, key), keys, index + 1)
    ELSE LET res == FilterDefined(
                      [i \in 1..Len((IF IsArray(current) THEN current.e ELSE <<current>>)) |->
                         processWildcardGet_noArrayCheck((IF IsArray(current) THEN current.e ELSE <<current>>)[i], keys, index + 1)])
         IN IF Len(res) > 0 THEN Arr(res) ELSE Undefined

\* processWildcardGet returning the bare value of the last key, not wrapped
RECURSIVE processWildcardGet_noWrap(_, _, _)
processWildcardGet_noWrap(current, keys, index) ==
  IF IsNullish(current) \/ index >= Len(keys) THEN Undefined
  ELSE LET key == keys[index + 1] IN
    IF key # "[]"
    THEN IF index = Len(keys) - 1
         THEN Prop(current, key)
         ELSE processWildcardGet_noWrap(Prop(current, key), keys, index + 1)
    ELSE IF ~IsArray(current) THEN Undefined
    ELSE LET res == FilterDefined(
                      [i \in 1..Len(current.e) |->
                         processWildcardGet_noWrap(current.e[i], keys, index + 1)])
         IN IF Len(res) > 0 THEN Arr(res) ELSE Undefined

\* processWildcardGet giving the element itself when no segment remains
RECURSIVE processWildcardGet_elementAtEnd(_, _, _)
processWildcardGet_elementAtEnd(current, keys, index) ==
  IF IsNullish(current) THEN Undefined
  ELSE IF index >= Len(keys) THEN current
  ELSE LET key == keys[index + 1] IN
    IF key # "[]"
    THEN IF index = Len(keys) - 1
         THEN IF Prop(current, key) # Undefined
              THEN Arr(<<Prop(current, key)>>)
              ELSE Undefined
         ELSE processWildcardGet_elementAtEnd(Prop(current, key), keys, index + 1)
    ELSE IF ~IsArray(current) THEN Undefined
    ELSE LET res == FilterDefined(
                      [i \in 1..Len(current.e) |->
                         processWildcardGet_elementAtEnd(current.e[i], keys, index + 1)])
         IN IF Len(res) > 0 THEN Arr(res) ELSE Undefined

RECURSIVE processWildcardGet(_, _, _)
processWildcardGet(current, keys, index) ==
  IF IsNullish(current) \/ index >= Len(keys) THEN Undefined
  ELSE LET key == keys[index + 1] IN
    IF key # "[]"
    THEN IF index = Len(keys) - 1
         THEN IF Prop(current, key) # Undefined
              THEN Arr(<<Prop(current, key)>>)
              ELSE Undefined
         ELSE processWildcardGet(Prop(current, key), keys, index + 1)
    ELSE IF ~IsArray(current) THEN Undefined
    ELSE LET res == FilterDefined(
                      [i \in 1..Len(current.e) |->
                         processWildcardGet(current.e[i], keys, index + 1)])
         IN IF Len(res) > 0 THEN Arr(res) ELSE Undefined

\* the for-of loop of the standard branch from segment i on
RECURSIVE standardGetLoop(_, _, _, _)
standardGetLoop(current, keys, i, dflt) ==
  IF i > Len(keys)
  THEN IF current # Undefined THEN current ELSE dflt
  ELSE LET next == IF ~IsNullish(current) THEN Prop(current, keys[i]) ELSE Undefined
       IN IF IsNullish(next) THEN dflt
          ELSE standardGetLoop(next, keys, i + 1, dflt)

get(obj, p, dflt) ==
  LET keys == toPath(p) IN
  IF HasWildcard(keys)
  THEN LET res == processWildcardGet(obj, keys, 0)
       IN IF res # Undefined /\ Len(res.e) > 0 THEN res
          ELSE IF dflt # Undefined THEN dflt ELSE EmptyArr
  ELSE standardGetLoop(obj, keys, 1, dflt)

(***************************************************************************)
(* The second get of src/unnamed/part_003 (lines 58-114), which collects   *)
(* the leaves of a wildcard path into one flat array.                      *)
(***************************************************************************)
\* the for-of loops of processWildcardGet left by return
Returned == [t |-> "return"]

\* for (const key of keys) { if (value == null) return; value = value[key]; }
\* from key i on
RECURSIVE flatTraverse(_, _, _)
flatTraverse(value, keys, i) ==
  IF i > Len(keys) THEN value
  ELSE IF IsNullish(value) THEN Returned
  ELSE flatTraverse(Prop(value, keys[i]), keys, i + 1)

\* keys.indexOf('[]') + 1, 0 when there is none
IndexOfWildcard(keys) ==
  IF HasWildcard(keys)
  THEN CHOOSE i \in 1..Len(keys) : keys[i] = "[]" /\ \A j \in 1..(i - 1) : keys[j] # "[]"
  ELSE 0

\* the flat processWildcardGet pushing a leaf without the test against undefined
RECURSIVE flatProcessWildcardGet_noUndefinedTest(_, _, _)
RECURSIVE flatForEach_noUndefinedTest(_, _, _, _)
flatProcessWildcardGet_noUndefinedTest(current, keys, res) ==
  IF IsNullish(current) THEN res
  ELSE LET wildcardIndex == IndexOfWildcard(keys) IN
    IF wildcardIndex = 0
    THEN LET leaf == flatTraverse(current, keys, 1)
         IN IF leaf # Returned THEN Append(res, leaf) ELSE res
    ELSE LET container == flatTraverse(current, SubSeq(keys, 1, wildcardIndex - 1), 1)
         IN IF container = Returned \/ ~IsArray(container) THEN res
            ELSE flatForEach_noUndefinedTest(container.e,
                                             SubSeq(keys, wildcardIndex + 1, Len(keys)), res, 1)

flatForEach_noUndefinedTest(items, suffixKeys, res, j) ==
  IF j > Len(items) THEN res
  ELSE flatForEach_noUndefinedTest(items, suffixKeys,
         flatProcessWildcardGet_noUndefinedTest(items[j], suffixKeys, res), j + 1)

\* processWildcardGet(current, keys, result) of the flat get: result after the call
RECURSIVE flatProcessWildcardGet(_, _, _)
RECURSIVE flatForEach(_, _, _, _)
flatProcessWildcardGet(current, keys, res) ==
  IF IsNullish(current) THEN res
  ELSE LET wildcardIndex == IndexOfWildcard(keys) IN
    IF wildcardIndex = 0
    THEN LET leaf == flatTraverse(current, keys, 1)
         IN IF leaf # Returned /\ leaf # Undefined THEN Append(res, leaf) ELSE res
    ELSE LET container == flatTraverse(current, SubSeq(keys, 1, wildcardIndex - 1), 1)
         IN IF container = Returned \/ ~IsArray(container) THEN res
            ELSE flatForEach(container.e, SubSeq(keys, wildcardIndex + 1, Len(keys)), res, 1)

\* value.forEach(item => processWildcardGet(item, suffixKeys, result)) from item j on
flatForEach(items, suffixKeys, res, j) ==
  IF j > Len(items) THEN res
  ELSE flatForEach(items, suffixKeys, flatProcessWildcardGet(items[j], suffixKeys, res), j + 1)

flatGet(obj, p, dflt) ==
  LET keys == toPath(p) IN
  IF HasWildcard(keys)
  THEN LET res == flatProcessWildcardGet(obj, keys, <<>>)
       IN IF Len(res) > 0 THEN Arr(res)
          ELSE IF dflt # Undefined THEN dflt ELSE EmptyArr
  ELSE standardGetLoop(obj, keys, 1, dflt)

(***************************************************************************)
(* pick / processWildcardPath (src/unnamed/part_005).                      *)
(* paths is the list props of paths; each path is an array of segments.    *)
(***************************************************************************)
\* { [key]: value }
Single(key, value) == Obj([k \in {key} |-> value])

\* result[key] = value
SetProp(o, key, value) ==
  Obj([k \in (DOMAIN o.f) \cup {key} |-> IF k = key THEN value ELSE o.f[k]])

\* processWildcardPath without the filter of undefined entries
RECURSIVE processWildcardPath_noFilter(_, _, _)
processWildcardPath_noFilter(current, keys, index) ==
  IF IsNullish(current) \/ index >= Len(keys) THEN Undefined
  ELSE LET key == keys[index + 1] IN
    IF key # "[]"
    THEN LET nextValue == Prop(current, key) IN
         IF index = Len(keys) - 1
         THEN IF nextValue # Undefined THEN Single(key, nextValue) ELSE Undefined
         ELSE LET res == processWildcardPath_noFilter(nextValue, keys, index + 1)
              IN IF res # Undefined THEN Single(key, res) ELSE Undefined
    ELSE IF ~IsArray(current) THEN Undefined
    ELSE LET res == [i \in 1..Len(current.e) |->
                         processWildcardPath_noFilter(current.e[i], keys, index + 1)]
         IN IF Len(res) > 0 THEN Arr(res) ELSE Undefined

RECURSIVE processWildcardPath(_, _, _)
processWildcardPath(current, keys, index) ==
  IF IsNullish(current) \/ index >= Len(keys) THEN Undefined
  ELSE LET key == keys[index + 1] IN
    IF key # "[]"
    THEN LET nextValue == Prop(current, key) IN
         IF index = Len(keys) - 1
         THEN IF nextValue # Undefined THEN Single(key, nextValue) ELSE Undefined
         ELSE LET res == processWildcardPath(nextValue, keys, index + 1)
              IN IF res # Undefined THEN Single(key, res) ELSE Undefined
    ELSE IF ~IsArray(current) THEN Undefined
    ELSE LET res == FilterDefined(
                      [i \in 1..Len(current.e) |->
                         processWildcardPath(current.e[i], keys, index + 1)])
         IN IF Len(res) > 0 THEN Arr(res) ELSE Undefined

\* the while loop of the standard branch: <<current, index>> when it stops
RECURSIVE standardPickLoop(_, _, _)
standardPickLoop(current, keys, index) ==
  IF ~IsNullish(current) /\ index < Len(keys)
  THEN standardPickLoop(Prop(current, keys[index + 1]), keys, index + 1)
  ELSE <<current, index>>

\* pickPath keying the standard branch's entry by the first segment, not the last
pickPath_firstKey(res, obj, p) ==
  LET keys == toPath(p) IN
  IF HasWildcard(keys)
  THEN LET rootKey == keys[1]
       IN SetProp(res, rootKey, processWildcardPath(obj, keys, 0))
  ELSE LET w == standardPickLoop(obj, keys, 0)
           current == w[1]
           index == w[2]
       IN IF index # 0 /\ index = Len(keys) /\ current # Undefined
          THEN SetProp(res, keys[1], current)
          ELSE res

\* the forEach callback: what one path does to result
pickPath(res, obj, p) ==
  LET keys == toPath(p) IN
  IF HasWildcard(keys)
  THEN LET rootKey == keys[1]
       IN SetProp(res, rootKey, processWildcardPath(obj, keys, 0))
  ELSE LET w == standardPickLoop(obj, keys, 0)
           current == w[1]
           index == w[2]
       IN IF index # 0 /\ index = Len(keys) /\ current # Undefined
          THEN SetProp(res, keys[Len(keys)], current)
          ELSE res

\* props.forEach where a path whose key the result already has is skipped
RECURSIVE pickLoop_firstWins(_, _, _, _)
pickLoop_firstWins(res, obj, props, i) ==
  IF i > Len(props) THEN res
  ELSE LET next == pickPath(res, obj, props[i])
       IN IF DOMAIN next.f = DOMAIN res.f
          THEN pickLoop_firstWins(res, obj, props, i + 1)
          ELSE pickLoop_firstWins(next, obj, props, i + 1)

\* props.forEach from path i on
RECURSIVE pickLoop(_, _, _, _)
pickLoop(res, obj, props, i) ==
  IF i > Len(props) THEN res
  ELSE pickLoop(pickPath(res, obj, props[i]), obj, props, i + 1)

\* pick without the test object == null
pick_noNullCheck(obj, props) == pickLoop(EmptyObj, obj, props, 1)

pick(obj, props) ==
  IF IsNullish(obj) THEN EmptyObj
  ELSE pickLoop(EmptyObj, obj, props, 1)

(***************************************************************************)
(* The containers of a call.  heap is the sequence of the arrays and       *)
(* objects a call works with: its arguments first, as they are after the   *)
(* call, then what the call allocates, in order; a reference is a position *)
(* in heap.  The variables arr, object, path, paths and pathValue keep the *)
(* arguments as they were passed.  A string, a number, null and undefined  *)
(* are no containers: the cell of such an argument holds the value.        *)
(***************************************************************************)
\* a new array or object with content c, and its reference
Alloc(h, c) == Append(h, c)
NewRef(h) == Len(h) + 1
\* no container is returned
NoRef == 0
\* const cache = {}
NoCache == [k \in {} |-> NoRef]

\* combineEmpty(arr), arr at reference a: result is a new array, every push
\* goes to it, and it is what is returned
combineEmptyOnHeap(h, a) == [heap |-> Alloc(h, combineEmpty(h[a])), ret |-> NewRef(h)]

\* toPath returning the array it was given
toPathOnHeap_sameArray(h, v) == [heap |-> h, ret |-> v]

\* toPath(value), the array value at reference v: value.slice() is a new array
toPathOnHeap(h, v) == [heap |-> Alloc(h, toPath(h[v])), ret |-> NewRef(h)]

\* get(object, path), the arguments at o and p: keys is the array toPath
\* returns; nothing else is written
getOnHeap(h, o, p) == [heap |-> toPathOnHeap(h, p).heap, ret |-> NoRef]

\* pick(object, paths), the arguments at o and ps: result is a new object,
\* every assignment goes to it, and it is what is returned
pickOnHeap(h, o, ps) == [heap |-> Alloc(h, pick(h[o], h[ps])), ret |-> NewRef(h)]

(***************************************************************************)
(* SchedulerLeaderLogService (src/unnamed/part_008).                       *)
(* log is the table scheduler_leader_log, a term's id its position (the    *)
(* auto-incremented key).  Times are readings of the clock now, in         *)
(* minutes; NoTime is the null of stop_time and last_heartbeat.            *)
(***************************************************************************)
\* const GRACE_PERIOD_MS = 5 * 60 * 1000, in minutes
GRACE_PERIOD_MS == 5
\* null in a DATETIME column
NoTime == 0
\* null where a term is expected
NoTerm == 0
\* the values of leader_instance
Nodes == {"nodeA", "nodeB"}

\* interface LeaderTerm
LeaderTerm(leaderInstance, start, stop, heartbeat, handled) ==
  [leader_instance |-> leaderInstance, start_time |-> start, stop_time |-> stop,
   last_heartbeat |-> heartbeat, handled_missed_tasks |-> handled]

\* getPreviousLeaderTerm ordering by start_time ascending
getPreviousLeaderTerm_oldest(l) ==
  IF Len(l) > 0
  THEN CHOOSE i \in 1..Len(l) : \A j \in 1..Len(l) : l[i].start_time <= l[j].start_time
  ELSE NoTerm

\* find({}, orderBy start_time desc, limit 1): the id of the latest term
getPreviousLeaderTerm(l) ==
  IF Len(l) > 0
  THEN CHOOSE i \in 1..Len(l) : \A j \in 1..Len(l) : l[j].start_time <= l[i].start_time
  ELSE NoTerm

getEffectiveEndTime(term) ==
  IF term.stop_time # NoTime THEN term.stop_time
  ELSE IF term.last_heartbeat # NoTime THEN term.last_heartbeat + GRACE_PERIOD_MS
  ELSE term.start_time + GRACE_PERIOD_MS

getPreviousEffectiveEndTime(l) ==
  LET previousTerm == getPreviousLeaderTerm(l) IN
  IF previousTerm = NoTerm THEN NoTime ELSE getEffectiveEndTime(l[previousTerm])

arePreviousMissedTasksHandled(l) ==
  LET previousTerm == getPreviousLeaderTerm(l) IN
  IF previousTerm = NoTerm THEN TRUE ELSE l[previousTerm].handled_missed_tasks

\* model.insert of a term that starts at time t
insertNewLeaderTerm(l, leaderInstance, handledMissedTasks, t) ==
  Append(l, LeaderTerm(leaderInstance, t, NoTime, t, handledMissedTasks))

updateLastHeartbeat(l, id, t) == [l EXCEPT ![id].last_heartbeat = t]

setStopTime(l, id, t) == [l EXCEPT ![id].stop_time = t]

(***************************************************************************)
(* Inputs of the calls.                                                    *)
(***************************************************************************)
SeqsUpTo(S, n) == UNION {[1..m -> S] : m \in 0..n}

\* inputs of combineEmpty
Tokens == {"", "a", "b"}
TokenSeqs == SeqsUpTo(Tokens, MaxLen)

C42 == Single("c", Num(42))
C43 == Single("c", Num(43))

\* the sample objects of the tests (src/toPath_Get_Pick.test.ts)
testObject ==
  Obj([k \in {"a", "x"} |->
        IF k = "x" THEN Num(100)
        ELSE Arr(<<Single("b", Arr(<<C42, C43>>)),
                   Single("b", Arr(<<Single("c", Num(99)), Single("c", Num(100))>>))>>)])
objectWithMissing ==
  Single("a", Arr(<<Single("b", Arr(<<C42, EmptyObj>>)),
                    Single("b", Arr(<<Single("c", Num(99))>>))>>))
nonArrayObject == Single("a", Single("b", Single("c", Num(1))))
noValueObject == Single("a", Arr(<<EmptyObj>>))
pickSample == Single("a", Arr(<<Single("b", Arr(<<C42, C43>>))>>))

\* elements of the array under a: one wildcard above the leaf key c
Elems1 == {C42, C43, Single("c", Null), Single("c", Undefined), EmptyObj, Null, Num(7)}
\* arrays under b, and the elements of the array under a that hold them
Inner == SeqsUpTo({C42, EmptyObj}, MaxArrLen)
Elems2 == {Single("b", Arr(x)) : x \in Inner} \cup {EmptyObj, Single("b", C42)}

FlatSources == {Single("a", Arr(x)) : x \in SeqsUpTo(Elems1, MaxArrLen)}
NestedSources == {Single("a", Arr(x)) : x \in SeqsUpTo(Elems2, MaxArrLen)}
SpecialSources ==
  {Null, Undefined, Num(5), EmptyObj, testObject, objectWithMissing, nonArrayObject,
   noValueObject, pickSample, Single("a", Null), Single("a", Num(42)),
   Single("a", Arr(<<Arr(<<C42, C43>>), Arr(<<>>), Arr(<<EmptyObj, C42>>)>>)),
   Single("a", Arr(<<Single("b", Arr(<<EmptyObj>>)), Single("b", Arr(<<C42>>))>>)),
   Arr(<<C42, EmptyObj, C43>>),
   Single("a", Single("..c", Num(1))), Single("a", Single("", Single("", C42)))}

Sources == FlatSources \cup NestedSources \cup SpecialSources
PickSources == FlatSources \cup SpecialSources

\* the segments a path may hold at position i
SegAt(i) ==
  CASE i = 1 -> {"a"}
    [] i = 2 -> {"[]", "0"}
    [] i = 3 -> {"b", "c"}
    [] i = 4 -> {"[]", "0"}
    [] OTHER -> {"c"}

PathsOfLen(n) == {p \in [1..n -> {"a", "b", "c", "0", "[]"}] : \A i \in 1..n : p[i] \in SegAt(i)}
SpecialPaths ==
  {<<"[]">>, <<"[]", "c">>, <<"z", "y">>, <<"x">>, <<"a", "b", "c">>, <<"a", "[]", "b", "c">>,
   <<"a", "[]", "[]", "c">>, <<"a", "1", "b", "1", "c">>, <<"a", "length">>,
   <<"a", "", "", "c">>, <<"a", "..c">>}
Paths == UNION {PathsOfLen(n) : n \in 0..MaxPathLen} \cup SpecialPaths

\* the third argument of get: undefined when the caller gives none
Defaults == {Undefined, Str("fallback")}

\* the paths given to pick, and the lists of them
PickPaths ==
  {<<>>, <<"a">>, <<"x">>, <<"z", "y">>, <<"a", "0", "c">>, <<"a", "0", "b", "0", "c">>,
   <<"a", "[]", "c">>, <<"a", "[]", "b", "c">>, <<"a", "[]", "b", "0", "c">>,
   <<"a", "[]", "b", "[]", "c">>, <<"a", "", "", "c">>}
PathLists == SeqsUpTo(PickPaths, MaxPaths)

\* the path strings: every string over PathChars up to MaxStrLen, the strings
\* of the tests, and 'a' + k times '.[]' + '.c'
PathChars == {"a", ".", "[", "]", "0"}
EnumStrings == SeqsUpTo(PathChars, MaxStrLen)
TestStrings ==
  {<<"a", ".", "b", ".", "c">>,
   <<"a", "[", "0", "]", ".", "b">>,
   <<"a", ".", "[", "]", ".", "b", ".", "c">>,
   <<"a", ".", "[", "]", ".", "b", ".", "[", "]", ".", "c">>,
   <<"a", "[", "\"", "b", ".", "c", "\"", "]", ".", "d">>,
   <<"a", ".", "b", "[", "0", "]", ".", "[", "]", ".", "c">>,
   <<"a", ".", ".", "b">>,
   <<"a", "[", "'", "b", "'", "]">>,
   <<"a", "[", "\"", "b", "\\", "\"", "c", "\"", "]">>,
   <<"[", "-", "1", ".", "5", "]">>}
RECURSIVE Wildcards(_)
Wildcards(k) == IF k = 0 THEN <<>> ELSE <<".", "[", "]">> \o Wildcards(k - 1)
WildcardRun(k) == <<"a">> \o Wildcards(k) \o <<".", "c">>
WildcardStrings == {WildcardRun(k) : k \in 1..MaxWildcards}
PathStrings == EnumStrings \cup TestStrings \cup WildcardStrings
\* the paths given as arrays
PathArrays == {Arr(<<"a", "b", "c">>), Arr(<<"a", "", "", "c">>), Arr(<<>>)}
\* the values of the parameter of toPath and superToPath
PathValues == {Text(cs) : cs \in PathStrings} \cup PathArrays \cup {Null, Undefined}

(***************************************************************************)
(* The state machine: each action is one call of one function, made from   *)
(* the initial state (the functions keep no state between calls); the      *)
(* state after it holds the arguments of the call and what it returned.    *)
(***************************************************************************)
Init ==
  /\ fn = "none"
  /\ arr = <<>>
  /\ object = Undefined
  /\ path = <<>>
  /\ paths = <<>>
  /\ defaultValue = Undefined
  /\ result = Undefined
  /\ pathValue = Undefined
  /\ string = <<>>
  /\ lastIndex = 0
  /\ heap = <<>>
  /\ ret = NoRef
  /\ log = <<>>
  /\ now = 1
  /\ step = "idle"
  /\ candidate = "none"
  /\ previousHandled = TRUE
  /\ processed = <<>>
  /\ termId = NoTerm

CallCombineEmpty ==
  /\ fn = "none"
  /\ UNCHANGED leaderVars
  /\ \E a \in TokenSeqs :
    /\ fn' = "combineEmpty"
    /\ arr' = a
    /\ heap' = combineEmptyOnHeap(<<a>>, 1).heap
    /\ ret' = combineEmptyOnHeap(<<a>>, 1).ret
    /\ result' = heap'[ret']
    /\ UNCHANGED <<object, path, paths, defaultValue, pathValue, string, lastIndex>>

CallGet ==
  /\ fn = "none"
  /\ UNCHANGED leaderVars
  /\ \E o \in Sources, p \in Paths, d \in Defaults :
    /\ fn' = "get"
    /\ object' = o
    /\ path' = p
    /\ defaultValue' = d
    /\ heap' = getOnHeap(<<o, p>>, 1, 2).heap
    /\ ret' = getOnHeap(<<o, p>>, 1, 2).ret
    /\ result' = get(o, p, d)
    /\ UNCHANGED <<arr, paths, pathValue, string, lastIndex>>

\* a call of the flat get
CallFlatGet ==
  /\ fn = "none"
  /\ UNCHANGED leaderVars
  /\ \E o \in Sources, p \in Paths, d \in Defaults :
    /\ fn' = "flatGet"
    /\ object' = o
    /\ path' = p
    /\ defaultValue' = d
    /\ heap' = getOnHeap(<<o, p>>, 1, 2).heap
    /\ ret' = getOnHeap(<<o, p>>, 1, 2).ret
    /\ result' = flatGet(o, p, d)
    /\ UNCHANGED <<arr, paths, pathValue, string, lastIndex>>

CallPick ==
  /\ fn = "none"
  /\ UNCHANGED leaderVars
  /\ \E o \in PickSources, ps \in PathLists :
    /\ fn' = "pick"
    /\ object' = o
    /\ paths' = ps
    /\ heap' = pickOnHeap(<<o, ps>>, 1, 2).heap
    /\ ret' = pickOnHeap(<<o, ps>>, 1, 2).ret
    /\ result' = heap'[ret']
    /\ UNCHANGED <<arr, path, defaultValue, pathValue, string, lastIndex>>

\* toPath(value): an array is copied; for a string, null or undefined
\* stringToPath allocates cache and result, returns result for null and
\* undefined and enters its scanning loop for a string
CallToPath ==
  /\ fn = "none"
  /\ UNCHANGED leaderVars
  /\ \E v \in PathValues :
    /\ pathValue' = v
    /\ IF IsArray(v)
       THEN /\ fn' = "toPath"
            /\ heap' = toPathOnHeap(<<v.e>>, 1).heap
            /\ ret' = toPathOnHeap(<<v.e>>, 1).ret
            /\ string' = <<>>
       ELSE /\ fn' = IF IsNullish(v) THEN "toPath" ELSE "stringToPath"
            /\ heap' = Alloc(Alloc(<<v>>, NoCache), <<>>)
            /\ ret' = 3
            /\ string' = IF IsNullish(v) THEN <<>> ELSE Unescape(v.chars)
    /\ result' = heap'[ret']
    /\ lastIndex' = 0
    /\ UNCHANGED <<arr, object, path, paths, defaultValue>>

\* one iteration of the while loop of stringToPath: the exec, and either the
\* push of the key to result or, when nothing matches, the entry in cache
\* and the return
stringToPathExec ==
  /\ fn = "stringToPath"
  /\ UNCHANGED leaderVars
  /\ LET match == Exec(string, lastIndex, TRUE) IN
       IF ~match.ok
       THEN /\ fn' = "toPath"
            /\ lastIndex' = 0
            /\ heap' = [heap EXCEPT ![2] = (Join(string) :> ret)]
       ELSE /\ lastIndex' = match.end
            /\ heap' = IF KeyOf(match) # ""
                       THEN [heap EXCEPT ![ret] = Append(@, KeyOf(match))]
                       ELSE heap
            /\ UNCHANGED fn
  /\ result' = heap'[ret]
  /\ UNCHANGED <<pathValue, string, arr, object, path, paths, defaultValue, ret>>

CallSuperToPath ==
  /\ fn = "none"
  /\ UNCHANGED leaderVars
  /\ \E v \in PathValues :
    /\ fn' = "superToPath"
    /\ pathValue' = v
    /\ heap' = Alloc(<<IF IsArray(v) THEN v.e ELSE v>>, superToPath(v))
    /\ ret' = 2
    /\ result' = heap'[ret']
    /\ UNCHANGED <<arr, object, path, paths, defaultValue, string, lastIndex>>

(***************************************************************************)
(* A run of the leader log: nodes become leader one at a time by the       *)
(* workflow of part_008:373-381, send heartbeats, and stop or crash.       *)
(* Every call of the service reads the clock later than the call before.   *)
(***************************************************************************)
callVars == <<arr, object, path, paths, defaultValue, result, pathValue, string, lastIndex,
              heap, ret>>

\* step 1: a node that becomes leader calls arePreviousMissedTasksHandled
CheckMissedTasks ==
  /\ fn \in {"none", "leader"}
  /\ step = "idle" /\ termId = NoTerm
  /\ Len(log) < MaxTerms /\ now < MaxTime
  /\ \E n \in Nodes : candidate' = n
  /\ fn' = "leader"
  /\ previousHandled' = arePreviousMissedTasksHandled(log)
  /\ step' = "checked"
  /\ now' = now + 1
  /\ UNCHANGED <<callVars, log, processed, termId>>

\* step 1, not handled: getPreviousEffectiveEndTime and the processing of
\* the missed tasks from that time up to now
ProcessMissedTasks ==
  /\ step = "checked" /\ ~previousHandled
  /\ now < MaxTime
  /\ processed' = Append(processed, [prev |-> getPreviousLeaderTerm(log),
                                      start |-> getPreviousEffectiveEndTime(log),
                                      end |-> now])
  /\ step' = "processed"
  /\ now' = now + 1
  /\ UNCHANGED <<fn, callVars, log, candidate, previousHandled, termId>>

\* step 2: insertNewLeaderTerm, handledMissedTasks true when the missed
\* tasks were processed, false when they were skipped
InsertTerm ==
  /\ step = "processed" \/ (step = "checked" /\ previousHandled)
  /\ now < MaxTime
  /\ log' = insertNewLeaderTerm(log, candidate, step = "processed", now)
  /\ termId' = Len(log')
  /\ step' = "idle"
  /\ now' = now + 1
  /\ UNCHANGED <<fn, callVars, candidate, previousHandled, processed>>

\* step 3: the periodic updateLastHeartbeat(termId)
Heartbeat ==
  /\ termId # NoTerm /\ now < MaxTime
  /\ log' = updateLastHeartbeat(log, termId, now)
  /\ now' = now + 1
  /\ UNCHANGED <<fn, callVars, step, candidate, previousHandled, processed, termId>>

\* step 4: the graceful shutdown, setStopTime(termId)
GracefulStop ==
  /\ termId # NoTerm /\ now < MaxTime
  /\ log' = setStopTime(log, termId, now)
  /\ termId' = NoTerm
  /\ now' = now + 1
  /\ UNCHANGED <<fn, callVars, step, candidate, previousHandled, processed>>

\* the leader crashes or loses leadership: stop_time remains null
Crash ==
  /\ termId # NoTerm
  /\ termId' = NoTerm
  /\ UNCHANGED <<fn, callVars, log, now, step, candidate, previousHandled, processed>>

LeaderNext ==
  \/ CheckMissedTasks
  \/ ProcessMissedTasks
  \/ InsertTerm
  \/ Heartbeat
  \/ GracefulStop
  \/ Crash

Next ==
  \/ CallCombineEmpty
  \/ CallGet
  \/ CallFlatGet
  \/ CallPick
  \/ CallToPath
  \/ stringToPathExec
  \/ CallSuperToPath
  \/ LeaderNext

Spec == Init /\ [][Next]_vars
SpecGetVariants == Init /\ [][CallGet \/ CallFlatGet]_vars
SpecLeader == Init /\ [][LeaderNext]_vars
SpecCombineEmpty == Init /\ [][CallCombineEmpty]_vars
SpecGet == Init /\ [][CallGet]_vars
SpecPick == Init /\ [][CallPick]_vars
SpecCoalesce ==
  Init /\ [][CallCombineEmpty \/ CallToPath \/ stringToPathExec \/ CallSuperToPath]_vars
SpecGetPick == Init /\ [][CallGet \/ CallPick]_vars
SpecTokenizer == Init /\ [][CallToPath \/ stringToPathExec \/ CallSuperToPath]_vars

(***************************************************************************)
(* Reference notions the claims are stated with.                           *)
(***************************************************************************)
\* the string of n '.' characters, written out
Dots(n) == <<"", ".", "..", "...", "....", ".....", "......", ".......">>[n + 1]

\* the positions of the non-empty items of a, and the p-th of them in order
NonEmptyAt(a) == {i \in 1..Len(a) : a[i] # ""}
RankIn(S, i) == Cardinality({j \in S : j <= i})
\* the last non-empty position before i, 0 when there is none
PrevNonEmpty(a, i) ==
  LET before == {j \in NonEmptyAt(a) : j < i}
  IN IF before = {} THEN 0 ELSE CHOOSE j \in before : \A k \in before : k <= j

\* r is a rewritten as the claim describes: one segment per non-empty item,
\* prefixed by one '.' per empty item of the run before it, and one segment
\* of '.' characters for a trailing run
IsCoalesced(a, r) ==
  LET ne == NonEmptyAt(a)
      k == Cardinality(ne)
      trailing == Len(a) - PrevNonEmpty(a, Len(a) + 1)
  IN /\ Len(r) = IF trailing > 0 THEN k + 1 ELSE k
     /\ \A i \in ne : r[RankIn(ne, i)] = Dots(i - PrevNonEmpty(a, i) - 1) \o a[i]
     /\ trailing > 0 => r[k + 1] = Dots(trailing)

\* C1: combineEmpty turns every run of N empty strings followed by a non-empty
\* string M into the one segment of N dots and M, a trailing run of N empty
\* strings into one segment of N dots, and keeps every other segment, in order.
C1_CombineEmptyRuns ==
  /\ fn = "combineEmpty" => IsCoalesced(arr, result)
  /\ combineEmpty(<<"", "a", "", "", "b", "", "c", "">>) = <<".a", "..b", ".c", ".">>
  /\ combineEmpty(<<>>) = <<>>

C1_Witness ==
  /\ fn = "combineEmpty"
  /\ arr = <<"", "a", "", "">>
  /\ result = <<".a", "..">>

\* the direct nested dereference s[p1][p2]...[pn]; absent (undefined) once a step
\* starts from null or undefined
RECURSIVE Deref(_, _)
Deref(v, p) ==
  IF p = <<>> THEN v
  ELSE IF IsNullish(v) THEN Undefined
  ELSE Deref(Prop(v, Head(p)), Tail(p))

\* C2: for a wildcard-free segment sequence get returns the value reached by
\* dereferencing the source segment by segment, and the default when an
\* intermediate value or the final value is null or absent.
C2_StandardGetIsDeref ==
  (fn = "get" /\ ~HasWildcard(path)) =>
    result = IF IsNullish(Deref(object, path)) THEN defaultValue ELSE Deref(object, path)

\* C2 as the code has it: the claim holds whenever the path has a segment or the
\* source is not null; get(null, [], d) returns null
C2_HoldsOffNullEmptyPath ==
  (fn = "get" /\ ~HasWildcard(path) /\ ~(object = Null /\ path = <<>>)) =>
    result = IF IsNullish(Deref(object, path)) THEN defaultValue ELSE Deref(object, path)

\* C10: for a null or absent source get returns the supplied default, whatever
\* the path, the empty one included.
C10_NullSourceGivesDefault ==
  (fn = "get" /\ IsNullish(object) /\ defaultValue # Undefined) => result = defaultValue

\* C10 as the code has it: the default unless the source is null and the path empty
C10_HoldsOffNullEmptyPath ==
  (fn = "get" /\ IsNullish(object) /\ defaultValue # Undefined /\ ~(object = Null /\ path = <<>>))
    => result = defaultValue

\* the number of wildcard segments of a path
WildcardCount(keys) == Cardinality({i \in 1..Len(keys) : keys[i] = "[]"})

\* the values a path leads to from v, every wildcard standing for each element
\* of the array found there; no value through null, undefined or a non-array
\* under a wildcard
RECURSIVE Reach(_, _)
Reach(v, p) ==
  IF p = <<>> THEN {v}
  ELSE IF IsNullish(v) THEN {}
  ELSE IF Head(p) = "[]"
       THEN IF IsArray(v)
            THEN UNION {Reach(v.e[i], Tail(p)) : i \in 1..Len(v.e)}
            ELSE {}
       ELSE Reach(Prop(v, Head(p)), Tail(p))

\* v resolves the remaining segments p to a defined value: some branch ends,
\* with the key that is p's last segment, on a value that is not undefined
Resolves(v, p) ==
  /\ p # <<>>
  /\ p[Len(p)] # "[]"
  /\ \E x \in Reach(v, p) : x # Undefined

\* v is nested exactly n sequence levels deep above values that are no sequences
RECURSIVE NestedExactly(_, _)
NestedExactly(v, n) ==
  IF n = 0 THEN ~IsArray(v)
  ELSE IsArray(v) /\ \A i \in 1..Len(v.e) : NestedExactly(v.e[i], n - 1)

\* the path ends with a key and every value it leads to is a defined scalar
LeavesAreScalars(v, p) ==
  /\ Resolves(v, p)
  /\ \A x \in Reach(v, p) : x.t = "number"

\* C3: the result of get nests exactly one sequence level per wildcard segment
\* above the leaf values: none for no wildcard, a sequence of leaves for one,
\* a sequence of sequences of leaves for two.
C3_OneLevelPerWildcard ==
  (fn = "get" /\ LeavesAreScalars(object, path)) =>
    NestedExactly(result, WildcardCount(path))

\* C3 as the code has it: the last key wraps its value in a sequence of its own,
\* so a path with a wildcard nests one level more than it has wildcards
C3_CodeNestsOneMore ==
  (fn = "get" /\ LeavesAreScalars(object, path)) =>
    NestedExactly(result, IF HasWildcard(path) THEN WildcardCount(path) + 1 ELSE 0)

\* the segments before position i (1-based) and those after it
Before(p, i) == SubSeq(p, 1, i - 1)
After(p, i) == SubSeq(p, i + 1, Len(p))

\* the positions of the wildcard segments, and the first of them
WildcardsAt(p) == {i \in 1..Len(p) : p[i] = "[]"}
FirstWildcard(p) == CHOOSE i \in WildcardsAt(p) : \A j \in WildcardsAt(p) : i <= j

\* the elements of the array v that resolve the segments p, and the m-th of them
ResolvingAt(v, p) == {j \in 1..Len(v.e) : Resolves(v.e[j], p)}
NthOf(S, m) == CHOOSE j \in S : RankIn(S, j) = m

\* what processWildcardGet yields for the array v found at wildcard position i of
\* the path keys has one entry per resolving element, in the array's order
LevelHasOnePerResolving(v, keys, i) ==
  LET res == ResolvingAt(v, After(keys, i))
      K == Cardinality(res)
      level == processWildcardGet(v, keys, i - 1)
  IN IF K = 0 THEN level = Undefined
     ELSE /\ IsArray(level)
          /\ Len(level.e) = K
          /\ \A m \in 1..K : level.e[m] = processWildcardGet(v.e[NthOf(res, m)], keys, i)

\* C4: over an array of N elements at a wildcard position, K of which resolve
\* the remaining path to a defined value, the sequence get produces at that
\* level has exactly K entries, one per resolving element, in source order.
C4_OneEntryPerResolvingElement ==
  (fn = "get" /\ HasWildcard(path)) =>
    /\ \A i \in WildcardsAt(path) :
         \A v \in Reach(object, Before(path, i)) :
           IsArray(v) => LevelHasOnePerResolving(v, path, i)
    /\ LET i == FirstWildcard(path)
           v == Deref(object, Before(path, i))
       IN (IsArray(v) /\ ResolvingAt(v, After(path, i)) # {}) =>
            /\ IsArray(result)
            /\ Len(result.e) = Cardinality(ResolvingAt(v, After(path, i)))
            /\ result = processWildcardGet(v, path, i - 1)

\* K = 1 of N = 2: the second element resolves, the first does not
C4_Witness ==
  /\ fn = "get"
  /\ object = Single("a", Arr(<<EmptyObj, C43>>))
  /\ path = <<"a", "[]", "c">>
  /\ result = Arr(<<Arr(<<Num(43)>>)>>)

\* K = N = 2, in source order
C4_WitnessAll ==
  /\ fn = "get"
  /\ object = Single("a", Arr(<<C43, C42>>))
  /\ path = <<"a", "[]", "c">>
  /\ result = Arr(<<Arr(<<Num(43)>>), Arr(<<Num(42)>>)>>)

RECURSIVE NonEmptyLevels(_, _)
NonEmptyLevels(v, n) ==
  n = 0 \/ (IsArray(v) /\ Len(v.e) > 0 /\ \A i \in 1..Len(v.e) : NonEmptyLevels(v.e[i], n - 1))

C9_WitnessEmpty ==
  /\ fn = "get"
  /\ object = noValueObject
  /\ path = <<"a", "[]", "b", "c">>
  /\ defaultValue = Undefined
  /\ result = EmptyArr

\* the partial copy of v along the segments p: a record stays a record with the
\* one key walked, a sequence stays a sequence of the rebuilt elements, and a
\* branch that reaches no defined value is left out (undefined)
RECURSIVE Mirror(_, _)
Mirror(v, p) ==
  IF p = <<>> THEN v
  ELSE IF IsNullish(v) THEN Undefined
  ELSE IF Head(p) = "[]"
       THEN IF ~IsArray(v) THEN Undefined
            ELSE LET subs == FilterDefined([i \in 1..Len(v.e) |-> Mirror(v.e[i], Tail(p))])
                 IN IF subs = <<>> THEN Undefined ELSE Arr(subs)
       ELSE LET sub == Mirror(Prop(v, Head(p)), Tail(p))
            IN IF sub = Undefined THEN Undefined
               ELSE IF IsArray(v) THEN Arr(<<sub>>)
               ELSE Single(Head(p), sub)

\* the call is pick(object, p) with the one path p
PickOf(p) == fn = "pick" /\ Len(paths) = 1 /\ paths[1] = p

\* C5: for a path with a wildcard pick returns an object whose only key is the
\* path's first segment, holding the partial subtree of the source under that
\* key, sequences rebuilt as sequences and records as records.
C5_WildcardPickMirrorsSource ==
  \A p \in PickPaths :
    (PickOf(p) /\ HasWildcard(p) /\ Resolves(object, p) /\ p[1] # "[]") =>
      result = Single(p[1], Mirror(Prop(object, p[1]), Tail(p)))

\* the example of C5: what the claim expects of pick(pickSample, 'a.[].b[0].c')
C5_ExampleExpected ==
  Single("a", Mirror(Prop(pickSample, "a"), <<"[]", "b", "0", "c">>))
    = Single("a", Arr(<<Single("b", Arr(<<C42>>))>>))

\* C5 as the code has it: the value under the first segment is the rebuilt
\* record that starts again with the first segment, and a step by a numeric
\* index is rebuilt as a record keyed by the index
C5_CodeRepeatsRootKey ==
  /\ \A p \in PickPaths :
       (PickOf(p) /\ HasWildcard(p) /\ Resolves(object, p) /\ p[1] # "[]") =>
         /\ DOMAIN result.f = {p[1]}
         /\ IsObject(result.f[p[1]])
         /\ DOMAIN result.f[p[1]].f = {p[1]}
  /\ pick(pickSample, <<(<<"a", "[]", "b", "0", "c">>)>>)
       = Single("a", Single("a", Arr(<<Single("b", Single("0", C42))>>)))

C6_WitnessMissing ==
  /\ PickOf(<<"z", "y">>)
  /\ object = testObject
  /\ result = EmptyObj

\* C7: the object pick returns has no key whose value is undefined.
C7_NoUndefinedValue ==
  fn = "pick" => \A k \in DOMAIN result.f : result.f[k] # Undefined

\* C7 as the code has it: only the wildcard branch stores undefined; the calls
\* whose paths all are wildcard-free return no undefined value
C7_HoldsWithoutWildcard ==
  (fn = "pick" /\ \A i \in 1..Len(paths) : ~HasWildcard(paths[i])) =>
    \A k \in DOMAIN result.f : result.f[k] # Undefined

\* the path has exactly one wildcard segment and ends with segments after it
OneWildcardThenKeys(p) == WildcardCount(p) = 1 /\ FirstWildcard(p) < Len(p)

\* the elements of the array v from which the wildcard-free segments p lead to
\* a defined value
LeafAt(v, p) == {j \in 1..Len(v.e) : Deref(v.e[j], p) # Undefined}

C11_WitnessPruned ==
  /\ fn = "get"
  /\ object = Single("a", Arr(<<Single("b", Arr(<<>>)), Single("b", Arr(<<C42>>))>>))
  /\ path = <<"a", "[]", "b", "0", "c">>
  /\ result = Arr(<<Arr(<<Num(42)>>)>>)

\* res is the pruned copy of src along the segments p: at a wildcard res is a
\* sequence with exactly one entry per element of the sequence src that
\* resolves the rest of p, in the order of src, and at least one; at a key res
\* holds the pruned copy of what src holds there and nothing else (as a record
\* with that key, or as a one-entry sequence for an index into a sequence); at
\* the end res is the defined leaf
RECURSIVE PrunedCopy(_, _, _)
PrunedCopy(src, res, p) ==
  IF p = <<>> THEN res = src /\ res # Undefined
  ELSE IF Head(p) = "[]"
       THEN /\ IsArray(src)
            /\ IsArray(res)
            /\ ResolvingAt(src, Tail(p)) # {}
            /\ Len(res.e) = Cardinality(ResolvingAt(src, Tail(p)))
            /\ \A m \in 1..Len(res.e) :
                 PrunedCopy(src.e[NthOf(ResolvingAt(src, Tail(p)), m)], res.e[m], Tail(p))
       ELSE /\ ~IsNullish(src)
            /\ \/ /\ IsObject(res)
                  /\ DOMAIN res.f = {Head(p)}
                  /\ PrunedCopy(Prop(src, Head(p)), res.f[Head(p)], Tail(p))
               \/ /\ IsArray(src)
                  /\ IsArray(res)
                  /\ Len(res.e) = 1
                  /\ PrunedCopy(Prop(src, Head(p)), res.e[1], Tail(p))

\* C12: in the result of a wildcard pick every rebuilt sequence holds exactly
\* one entry per source element whose branch reaches a defined leaf, in source
\* order; the other elements are pruned, and a container all of whose branches
\* are pruned is pruned itself (no empty sequence or record stands for it).
\* The rebuilt subtree is the result, or the value under its first segment
\* when that starts with the first segment again (see C5).
C12_WildcardPickPrunes ==
  \A p \in PickPaths :
    (PickOf(p) /\ HasWildcard(p)) =>
      IF Resolves(object, p)
      THEN PrunedCopy(object, result, p) \/ PrunedCopy(object, result.f[p[1]], p)
      ELSE \A k \in DOMAIN result.f : result.f[k] = Undefined

\* an element without leaf is pruned from the inner sequence
C12_Witness ==
  /\ PickOf(<<"a", "[]", "b", "[]", "c">>)
  /\ object = objectWithMissing
  /\ result = Single("a", Single("a", Arr(<<Single("b", Arr(<<C42>>)),
                                           Single("b", Arr(<<Single("c", Num(99))>>))>>)))

\* the first element's inner sequence has no entry left and is pruned with its record
C12_WitnessContainer ==
  /\ PickOf(<<"a", "[]", "b", "[]", "c">>)
  /\ object = Single("a", Arr(<<Single("b", Arr(<<EmptyObj>>)), Single("b", Arr(<<C42>>))>>))
  /\ result = Single("a", Single("a", Arr(<<Single("b", Arr(<<C42>>))>>)))

\* the shallow merge of two objects: the keys of both, the entry of the second
\* on a key both have
Merge(r1, r2) ==
  Obj([k \in (DOMAIN r1.f) \cup (DOMAIN r2.f) |->
        IF k \in DOMAIN r2.f THEN r2.f[k] ELSE r1.f[k]])

\* the shallow merge, in order, of the objects of the sequence rs
RECURSIVE MergeAll(_)
MergeAll(rs) ==
  IF rs = <<>> THEN EmptyObj
  ELSE Merge(MergeAll(SubSeq(rs, 1, Len(rs) - 1)), rs[Len(rs)])

\* C13: pick(s, [p1..pn]) equals the shallow merge, in list order, of
\* pick(s, p1) .. pick(s, pn): its keys are the union of their keys, and on a
\* key collision the entry of the later path replaces that of the earlier one.
C13_PickIsMergeOfSinglePicks ==
  /\ fn = "pick" =>
       LET singles == [i \in 1..Len(paths) |-> pick(object, <<paths[i]>>)]
       IN /\ result = MergeAll(singles)
          /\ DOMAIN result.f = UNION {DOMAIN singles[i].f : i \in 1..Len(paths)}
          /\ \A i \in 1..Len(paths) : \A k \in DOMAIN singles[i].f :
               (\A j \in (i + 1)..Len(paths) : k \notin DOMAIN singles[j].f)
                 => result.f[k] = singles[i].f[k]
  /\ pick(testObject, <<(<<"a", "0", "b", "0", "c">>), (<<"x">>)>>)
       = Obj([k \in {"c", "x"} |-> IF k = "c" THEN Num(42) ELSE Num(100)])

\* two paths with the same key and different entries: the later one stays
C13_Witness ==
  /\ fn = "pick"
  /\ object = Single("a", Arr(<<C42>>))
  /\ paths = <<(<<"a", "[]", "c">>), (<<"a">>)>>
  /\ pick(object, <<paths[1]>>) # pick(object, <<paths[2]>>)
  /\ result = Single("a", Arr(<<C42>>))

\* the example of the tests: two paths with different keys
C13_WitnessUnion ==
  /\ fn = "pick"
  /\ object = testObject
  /\ paths = <<(<<"a", "0", "b", "0", "c">>), (<<"x">>)>>
  /\ DOMAIN result.f = {"c", "x"}

\* the call returned the segments of the path argument
Tokenized == fn \in {"toPath", "superToPath"}

\* C14: the tokenizer returns the empty sequence for a null path, an undefined
\* path and the empty string, both as toPath and as superToPath.
C14_EmptyPathGivesNoSegment ==
  (Tokenized /\ (IsNullish(pathValue) \/ pathValue = Text(<<>>))) => result = <<>>

\* C14 as the code has it: it holds of toPath, and of superToPath for null and
\* undefined; superToPath('') is ['.']
C14_HoldsButSuperToPathOfEmptyString ==
  /\ (fn = "toPath" /\ (IsNullish(pathValue) \/ pathValue = Text(<<>>))) => result = <<>>
  /\ (fn = "superToPath" /\ IsNullish(pathValue)) => result = <<>>
  /\ (fn = "superToPath" /\ pathValue = Text(<<>>)) => result = <<".">>

\* C15: consecutive wildcard markers of a path string are kept as adjacent
\* '[]' segments: superToPath of 'a' followed by k markers '.[]' and '.c' is
\* 'a', k segments '[]', 'c' (for k = 2: superToPath('a.[].[].c') is
\* ['a', '[]', '[]', 'c']).
C15_ConsecutiveWildcardsKept ==
  \A k \in 1..MaxWildcards :
    (fn = "superToPath" /\ pathValue = Text(WildcardRun(k))) =>
      result = <<"a">> \o [i \in 1..k |-> "[]"] \o <<"c">>

\* C15 as the code has it: the pieces between the separators '.[].' are left to
\* lodash, which knows no wildcard marker
C15_CodeOnConsecutiveWildcards ==
  /\ superToPath(Text(WildcardRun(1))) = <<"a", "[]", "c">>
  /\ superToPath(Text(WildcardRun(2))) = <<"a", "[]", ".c">>
  /\ superToPath(Text(WildcardRun(3))) = <<"a", "[]", ".", "[]", "c">>

\* C16: for every non-empty path string the segment sequence the tokenizer
\* returns is non-empty.
C16_NonEmptyStringGivesSegments ==
  (Tokenized /\ IsText(pathValue) /\ pathValue.chars # <<>>) => result # <<>>

\* the segments of a path string built from plain names, '[n]' indices,
\* quoted '["k"]' keys and '.[]' markers, read from position i on; mode tells
\* what came before: nothing yet, a '.', or a complete item.  ok is FALSE for
\* a string that is not built this way
RECURSIVE RefParse(_, _, _)
RefParse(s, i, mode) ==
  LET Cons(seg, rest) == [ok |-> rest.ok, segs |-> <<seg>> \o rest.segs]
      Bad == [ok |-> FALSE, segs |-> <<>>]
  IN IF i >= Len(s) THEN [ok |-> mode = "item", segs |-> <<>>]
     ELSE IF mode \in {"start", "dot"}
     THEN IF IsNameChar(CharAt(s, i))
          THEN Cons(Join(Slice(s, i, NameEnd(s, i))), RefParse(s, NameEnd(s, i), "item"))
          ELSE IF mode = "dot" /\ CharAt(s, i) = "[" /\ CharAt(s, i + 1) = "]"
          THEN Cons("[]", RefParse(s, i + 2, "item"))
          ELSE Bad
     ELSE IF CharAt(s, i) = "." THEN RefParse(s, i + 1, "dot")
     ELSE IF CharAt(s, i) = "[" /\ IsDigit(CharAt(s, i + 1))
             /\ CharAt(s, DigitsEnd(s, i + 1)) = "]"
     THEN Cons(Join(Slice(s, i + 1, DigitsEnd(s, i + 1))),
               RefParse(s, DigitsEnd(s, i + 1) + 1, "item"))
     ELSE IF CharAt(s, i) = "[" /\ CharAt(s, i + 1) \in {"\"", "'"}
             /\ QuoteEnd(s, i + 2, CharAt(s, i + 1)) >= 0
             /\ CharAt(s, QuoteEnd(s, i + 2, CharAt(s, i + 1)) + 1) = "]"
     THEN Cons(Join(Slice(s, i + 2, QuoteEnd(s, i + 2, CharAt(s, i + 1)))),
               RefParse(s, QuoteEnd(s, i + 2, CharAt(s, i + 1)) + 2, "item"))
     ELSE Bad

\* C17: for a path string built from plain property names, bracketed numeric
\* indices, quoted bracket keys and '[]' markers toPath returns one segment per
\* name, index or key, in order, the content of a quoted key verbatim and
\* each '[]' as the segment '[]'.
C17_ToPathSegments ==
  (fn = "toPath" /\ IsText(pathValue) /\ RefParse(pathValue.chars, 0, "start").ok) =>
    result = RefParse(pathValue.chars, 0, "start").segs

\* the examples of C17, as the segments the claim gives for them
C17_ExamplesExpected ==
  /\ RefParse(<<"a", ".", "b", ".", "c">>, 0, "start") = [ok |-> TRUE, segs |-> <<"a", "b", "c">>]
  /\ RefParse(<<"a", "[", "0", "]", ".", "b">>, 0, "start") = [ok |-> TRUE, segs |-> <<"a", "0", "b">>]
  /\ RefParse(<<"a", "[", "\"", "b", ".", "c", "\"", "]", ".", "d">>, 0, "start") = [ok |-> TRUE, segs |-> <<"a", "b.c", "d">>]
  /\ RefParse(<<"a", ".", "[", "]", ".", "b", ".", "[", "]", ".", "c">>, 0, "start")
       = [ok |-> TRUE, segs |-> <<"a", "[]", "b", "[]", "c">>]

\* C17 as the code has it: a plain name is matched and dropped (its key is
\* ''), so the result holds the bracketed indices, the quoted keys and the
\* wildcard markers only
C17_CodeDropsPlainNames ==
  /\ (fn = "toPath" /\ pathValue = Text(<<"a", ".", "b", ".", "c">>)) => result = <<>>
  /\ (fn = "toPath" /\ pathValue = Text(<<"a", "[", "0", "]", ".", "b">>)) => result = <<"0">>
  /\ (fn = "toPath" /\ pathValue = Text(<<"a", "[", "\"", "b", ".", "c", "\"", "]", ".", "d">>)) => result = <<"b.c">>
  /\ (fn = "toPath" /\ IsText(pathValue)
        /\ \A j \in 1..Len(pathValue.chars) : pathValue.chars[j] \notin {"[", "]"})
       => result = <<>>

\* a TypeError was raised while v was computed
RECURSIVE Raised(_)
Raised(v) ==
  \/ v = TypeError
  \/ IsArray(v) /\ \E i \in 1..Len(v.e) : Raised(v.e[i])
  \/ IsObject(v) /\ \E k \in DOMAIN v.f : Raised(v.f[k])

\* the call is get, or pick with one path, of a path with a segment that leads
\* to no defined value: a key is missing, an index is out of range, an
\* intermediate value is null or undefined, or a wildcard stands over a value
\* that is not an array
GetOfNothing ==
  /\ fn = "get"
  /\ path # <<>>
  /\ IF HasWildcard(path) THEN ~Resolves(object, path) ELSE Deref(object, path) = Undefined
PickOfNothing(p) ==
  /\ PickOf(p)
  /\ p # <<>>
  /\ IF HasWildcard(p) THEN ~Resolves(object, p)
     ELSE IsNullish(object) \/ Deref(object, p) = Undefined

\* C18: get and pick never raise an error, for any source and any segment
\* sequence: a missing key, an out-of-range index, a null intermediate value
\* and a non-array at a wildcard all end in the default (get; the empty
\* sequence for a wildcard path without default) or in an absent key (pick).
C18_NoErrorAndNothingEndsInDefault ==
  /\ fn \in {"get", "pick"} => ~Raised(result)
  /\ GetOfNothing =>
       result = IF defaultValue = Undefined /\ HasWildcard(path) THEN EmptyArr
                ELSE defaultValue
  /\ \A p \in PickPaths : PickOfNothing(p) => result = EmptyObj

\* C18 as the code has it: no error is raised and get ends in the default; pick
\* has no key for a wildcard-free path and the first segment as key, with the
\* value undefined, for a wildcard path (see C7)
C18_HoldsButKeyOfWildcardPick ==
  /\ fn \in {"get", "pick"} => ~Raised(result)
  /\ GetOfNothing =>
       result = IF defaultValue = Undefined /\ HasWildcard(path) THEN EmptyArr
                ELSE defaultValue
  /\ \A p \in PickPaths : PickOfNothing(p) =>
       result = IF HasWildcard(p) /\ ~IsNullish(object) THEN Single(p[1], Undefined)
                ELSE EmptyObj

\* the path string has an empty segment: it starts or ends with '.', or has
\* '..', or an empty quoted key
HasEmptySegment(s) ==
  \E i \in 1..Len(s) :
    \/ s[i] = "." /\ (i = 1 \/ i = Len(s) \/ s[i + 1] = ".")
    \/ /\ s[i] = "["
       /\ CharAt(s, i) \in {"\"", "'"}
       /\ CharAt(s, i + 1) = CharAt(s, i)
\* the path argument, a string or an array, has no empty segment
NoEmptySegment(v) ==
  IF IsArray(v) THEN \A i \in 1..Len(v.e) : v.e[i] # ""
  ELSE IF IsText(v) THEN ~HasEmptySegment(v.chars)
  ELSE TRUE

\* C19: combineEmpty returns a sequence equal to its input for every input
\* without empty string, so combineEmpty applied to the segments the tokenizer
\* returns for a path without empty segment returns those segments.
C19_NoEmptyItemNoChange ==
  /\ (fn = "combineEmpty" /\ \A i \in 1..Len(arr) : arr[i] # "") => result = arr
  /\ (Tokenized /\ NoEmptySegment(pathValue)) => combineEmpty(result) = result

\* an input of two items, none empty
C19_Witness ==
  /\ fn = "combineEmpty"
  /\ arr = <<"a", "b">>
  /\ result = <<"a", "b">>

\* the segments of a path string without empty segment
C19_WitnessTokenized ==
  /\ fn = "superToPath"
  /\ pathValue = Text(<<"a", ".", "b", "[", "0", "]", ".", "[", "]", ".", "c">>)
  /\ result = <<"a", "b", "0", "[]", "c">>
  /\ combineEmpty(result) = result

C20_WitnessPick ==
  /\ fn = "pick"
  /\ object = testObject
  /\ paths = <<(<<"a", "0", "b", "0", "c">>), (<<"x">>)>>
  /\ heap[1] = testObject
  /\ heap[2] = paths
  /\ DOMAIN heap[3].f = {"c", "x"}

\* C21: pick returns the empty object for a null or absent (undefined)
\* source, whatever the list of paths.
C21_NullSourcePicksNothing ==
  (fn = "pick" /\ IsNullish(object)) => result = EmptyObj

\* a null source picked with a wildcard path and a standard path
C21_Witness ==
  /\ fn = "pick"
  /\ object = Null
  /\ paths = <<(<<"a", "[]", "c">>), (<<"x">>)>>
  /\ result = EmptyObj

\* an absent source
C21_WitnessUndefined ==
  /\ fn = "pick"
  /\ object = Undefined
  /\ Len(paths) > 0
  /\ result = EmptyObj

\* the gap after term k is the time between the effective end of term k and
\* the start of term k + 1; it is processed when the node that starts term
\* k + 1 processed the missed tasks with term k as the previous term
GapProcessed(k) == \E i \in 1..Len(processed) : processed[i].prev = k

\* C22: under the become-leader workflow, run by one node at a time, no gap
\* is skipped: for every term that has a predecessor, the missed tasks of the
\* gap between the two were processed.
C22_NoGapSkipped ==
  \A k \in 2..Len(log) : GapProcessed(k - 1)

\* what the code does: a term's flag says that the gap before it was
\* processed, and the next leader reads it as the gap after it being handled,
\* so the gap after a term is processed exactly when the term's flag is false
C22_CodeSkipsGapAfterHandlingTerm ==
  \A k \in 2..Len(log) :
    /\ GapProcessed(k - 1) <=> ~log[k - 1].handled_missed_tasks
    /\ log[k].handled_missed_tasks <=> ~log[k - 1].handled_missed_tasks

\* C23: under the become-leader workflow, run by one node at a time, no gap
\* is processed twice, also when a node loses and regains leadership.
C23_NoGapProcessedTwice ==
  \A i, j \in 1..Len(processed) : i # j => processed[i].prev # processed[j].prev

\* two gaps were processed, the first by a node that regained leadership
C23_Witness ==
  /\ Len(processed) = 2
  /\ Len(log) = 4
  /\ log[1].leader_instance = log[2].leader_instance
  /\ processed[1].prev = 1
  /\ processed[2].prev = 3

\* a gap after a crashed leader was processed: it starts at the last
\* heartbeat plus the grace period
C23_WitnessCrash ==
  /\ Len(log) >= 2
  /\ log[1].stop_time = NoTime
  /\ processed # <<>>
  /\ processed[1].start = log[1].last_heartbeat + GRACE_PERIOD_MS

\* the iteration of the scanning loop in the current state neither ends the
\* loop nor moves lastIndex: the next iteration is the same
Stalls ==
  /\ fn = "stringToPath"
  /\ Exec(string, lastIndex, TRUE).ok
  /\ Exec(string, lastIndex, TRUE).end = lastIndex

\* C24: the scanning loop of stringToPath terminates for every input
\* string: no iteration leaves the loop where it was, each one either ends
\* the loop or moves lastIndex towards the end of the string.
C24_ScanningLoopTerminates == ~Stalls

\* what the code does: the loop stalls exactly when it comes to a '.' that is
\* followed by '.', by '[]' or by the end of the string (the look-ahead
\* alternative matches the empty string there), and an iteration that stalls
\* changes nothing
C24_CodeStallsAtLookahead ==
  fn = "stringToPath" =>
    LET at == {i \in lastIndex..Len(string) : MatchAt(string, i, TRUE).ok}
        first == CHOOSE i \in at : \A j \in at : i <= j
    IN Stalls <=> (at # {} /\ CharAt(string, first) = "." /\ Lookahead(string, first)
                     /\ first = lastIndex)

\* a stalled iteration is followed by the same state
C24_StalledIterationChangesNothing ==
  [][Stalls => UNCHANGED vars]_vars

\* C25: a path given as an array of strings is coalesced before it is
\* used: get(s, P) equals get(s, combineEmpty(P)), and pick of the single path
\* P picks what the walk over combineEmpty(P) picks.
C25_ArrayPathIsCoalesced ==
  /\ fn = "get" => result = get(object, combineEmpty(path), defaultValue)
  /\ (fn = "pick" /\ Len(paths) = 1) =>
       result = pick(object, <<combineEmpty(paths[1])>>)

\* what the code does: get and pick walk the segments toPath returns, and
\* toPath returns an array path as it is; only superToPath coalesces it
C25_CodeWalksArrayAsGiven ==
  /\ (fn = "toPath" /\ IsArray(pathValue)) => result = pathValue.e
  /\ (fn = "superToPath" /\ IsArray(pathValue)) => result = combineEmpty(pathValue.e)
  /\ (fn = "get" /\ object = Single("a", Single("..c", Num(1)))
        /\ path = <<"a", "", "", "c">>) => result = defaultValue
  /\ (fn = "get" /\ object = Single("a", Single("", Single("", C42)))
        /\ path = <<"a", "", "", "c">>) => result = Num(42)

\* C26: a path whose last segment is the wildcard contributes no element:
\* for any source get returns the default, or the empty sequence when no
\* default is given.
C26_TrailingWildcardResolvesNothing ==
  (fn = "get" /\ Len(path) > 0 /\ path[Len(path)] = "[]") =>
    result = IF defaultValue # Undefined THEN defaultValue ELSE EmptyArr

\* the array under a has two elements, and none of them is returned
C26_Witness ==
  /\ fn = "get"
  /\ object = testObject
  /\ path = <<"a", "[]">>
  /\ defaultValue = Undefined
  /\ result = EmptyArr

\* the same below a first wildcard, with a default
C26_WitnessNested ==
  /\ fn = "get"
  /\ object = testObject
  /\ path = <<"a", "[]", "b", "[]">>
  /\ defaultValue = Str("fallback")
  /\ result = Str("fallback")

\* the elements of the array v from which the wildcard-free segments p lead to
\* a value that is neither undefined nor null
NonNullLeafAt(v, p) == {j \in 1..Len(v.e) : ~IsNullish(Deref(v.e[j], p))}

\* C27: a leaf whose value is null counts as missing with and without a
\* wildcard: on a wildcard-free path get returns the default, and on a path
\* with a wildcard the element is pruned, so that the result has one entry per
\* element whose leaf is neither undefined nor null (the default, or the empty
\* sequence, when there is none).
C27_NullLeafIsMissing ==
  /\ (fn = "get" /\ ~HasWildcard(path) /\ Len(path) > 0 /\ Deref(object, path) = Null) =>
       result = defaultValue
  /\ (fn = "get" /\ OneWildcardThenKeys(path)) =>
       LET i == FirstWildcard(path)
           v == Deref(object, Before(path, i))
           rest == After(path, i)
       IN IsArray(v) =>
            LET S == NonNullLeafAt(v, rest)
                K == Cardinality(S)
            IN result = IF K = 0
                        THEN (IF defaultValue # Undefined THEN defaultValue ELSE EmptyArr)
                        ELSE Arr([m \in 1..K |-> Arr(<<Deref(v.e[NthOf(S, m)], rest)>>)])

\* what the code does: the wildcard-free walk gives the default for a null
\* leaf, the wildcard walk tests the leaf against undefined only and keeps null
C27_CodeKeepsNullOnWildcardPath ==
  /\ (fn = "get" /\ ~HasWildcard(path) /\ Len(path) > 0 /\ Deref(object, path) = Null) =>
       result = defaultValue
  /\ (fn = "get" /\ object = Single("a", Arr(<<Single("c", Null), C42>>))
        /\ path = <<"a", "[]", "c">>) =>
       result = Arr(<<Arr(<<Null>>), Arr(<<Num(42)>>)>>)
  /\ (fn = "get" /\ object = Single("a", Arr(<<Single("c", Null), C42>>))
        /\ path = <<"a", "0", "c">>) =>
       result = defaultValue

\* the depth-first, source-order flattening of nested sequences: the values
\* that are no sequences, in the order they are met
RECURSIVE Flatten(_)
RECURSIVE FlattenFrom(_, _)
Flatten(v) == IF IsArray(v) THEN FlattenFrom(v.e, 1) ELSE <<v>>
FlattenFrom(es, i) ==
  IF i > Len(es) THEN <<>> ELSE Flatten(es[i]) \o FlattenFrom(es, i + 1)

\* every value the path leads to is a scalar (or nothing)
ScalarLeaves(v, p) == \A x \in Reach(v, p) : ~IsArray(x) /\ ~IsObject(x)

\* the nested get finds nothing and returns the default, or the empty sequence
NestedFindsNothing(v, p) ==
  LET r == processWildcardGet(v, toPath(p), 0) IN r = Undefined \/ Len(r.e) = 0

\* what the flat get is to return according to the nested get
FlattenedNested(v, p, dflt) ==
  IF NestedFindsNothing(v, p)
  THEN (IF dflt # Undefined THEN dflt ELSE EmptyArr)
  ELSE Arr(Flatten(processWildcardGet(v, toPath(p), 0)))

\* C28: the two get implementations agree up to flattening: for every source
\* with scalar leaves, every wildcard path and every default the flat get
\* returns the flattening of what the nested get returns, and the two return
\* the default (or the empty sequence) in the same cases.
C28_FlatIsFlattenedNested ==
  /\ (fn = "flatGet" /\ HasWildcard(path) /\ ScalarLeaves(object, path)) =>
       result = FlattenedNested(object, path, defaultValue)
  /\ (fn = "get" /\ HasWildcard(path) /\ ScalarLeaves(object, path)) =>
       flatGet(object, path, defaultValue) =
         IF NestedFindsNothing(object, path) THEN result ELSE Arr(Flatten(result))

\* the elements of the array a path that ends with the wildcard leads to,
\* null and undefined left out
RECURSIVE DefinedElements(_, _)
DefinedElements(v, p) ==
  IF IsNullish(v) THEN <<>>
  ELSE IF p = <<>> THEN <<v>>
  ELSE IF Head(p) # "[]" THEN DefinedElements(Prop(v, Head(p)), Tail(p))
  ELSE IF ~IsArray(v) THEN <<>>
  ELSE LET RECURSIVE from(_)
           from(i) == IF i > Len(v.e) THEN <<>>
                      ELSE DefinedElements(v.e[i], Tail(p)) \o from(i + 1)
       IN from(1)

\* C28 as amended: the two agree up to flattening for every wildcard path
\* that does not end with the wildcard; for a path that ends with the wildcard
\* the nested get finds nothing, and the flat get returns the elements
\* themselves (the default, or the empty sequence, when there is none).
C28_AgreeUnlessTrailingWildcard ==
  /\ (fn = "flatGet" /\ HasWildcard(path) /\ ScalarLeaves(object, path)
        /\ path[Len(path)] # "[]") =>
       result = FlattenedNested(object, path, defaultValue)
  /\ (fn = "get" /\ HasWildcard(path) /\ ScalarLeaves(object, path)
        /\ path[Len(path)] # "[]") =>
       flatGet(object, path, defaultValue) =
         IF NestedFindsNothing(object, path) THEN result ELSE Arr(Flatten(result))
  /\ (fn = "flatGet" /\ HasWildcard(path) /\ path[Len(path)] = "[]") =>
       /\ NestedFindsNothing(object, path)
       /\ result = IF DefinedElements(object, path) # <<>>
                   THEN Arr(DefinedElements(object, path))
                   ELSE IF defaultValue # Undefined THEN defaultValue ELSE EmptyArr

\* two wildcards: the flat get returns the four leaves, the nested get two
\* sequences of one-element sequences
C28_Witness ==
  /\ fn = "flatGet"
  /\ object = testObject
  /\ path = <<"a", "[]", "b", "[]", "c">>
  /\ result = Arr(<<Num(42), Num(43), Num(99), Num(100)>>)
  /\ get(object, path, defaultValue) =
       Arr(<<Arr(<<Arr(<<Num(42)>>), Arr(<<Num(43)>>)>>),
             Arr(<<Arr(<<Num(99)>>), Arr(<<Num(100)>>)>>)>>)

\* a path that ends with the wildcard: the flat get returns the element
C28_WitnessTrailing ==
  /\ fn = "flatGet"
  /\ object = Single("a", Arr(<<Num(7)>>))
  /\ path = <<"a", "[]">>
  /\ result = Arr(<<Num(7)>>)

\* what pick has built after the first j paths
PickedAfter(j) == pick(object, SubSeq(paths, 1, j))

\* C29: in a multi-path pick a path that resolves to nothing leaves the
\* entries of the earlier paths untouched: every key present before the path
\* is processed is present after it with the same value.
C29_UnresolvedPathKeepsEarlierEntries ==
  (fn = "pick" /\ ~IsNullish(object)) =>
    /\ result = PickedAfter(Len(paths))
    /\ \A j \in 1..Len(paths) :
         ~Resolves(object, paths[j]) =>
           \A k \in DOMAIN PickedAfter(j - 1).f :
             /\ k \in DOMAIN PickedAfter(j).f
             /\ PickedAfter(j).f[k] = PickedAfter(j - 1).f[k]

\* what the code does: a wildcard-free path that resolves nothing changes
\* nothing; a wildcard path that resolves nothing assigns undefined to its
\* first segment, an earlier entry under that key is lost, the others stay
C29_CodeOverwritesRootKeyOfWildcardPath ==
  (fn = "pick" /\ ~IsNullish(object)) =>
    \A j \in 1..Len(paths) :
      ~Resolves(object, paths[j]) =>
        IF HasWildcard(paths[j])
        THEN PickedAfter(j) = SetProp(PickedAfter(j - 1), paths[j][1], Undefined)
        ELSE PickedAfter(j) = PickedAfter(j - 1)

\* C30: no sequence returned by combineEmpty contains an empty string,
\* whatever the input; so no sequence returned by superToPath contains an
\* empty segment, and combineEmpty applied to its own output returns an equal
\* sequence.
C30_NoEmptyStringInOutput ==
  /\ fn = "combineEmpty" =>
       /\ \A i \in 1..Len(result) : result[i] # ""
       /\ combineEmpty(result) = result
  /\ fn = "superToPath" => \A i \in 1..Len(result) : result[i] # ""

\* an input with a run of empty strings inside and one at the end
C30_Witness ==
  /\ fn = "combineEmpty"
  /\ arr = <<"", "a", "", "">>
  /\ result = <<".a", "..">>

\* superToPath of an array path with empty segments
C30_WitnessSuperToPath ==
  /\ fn = "superToPath"
  /\ pathValue = Arr(<<"a", "", "", "c">>)
  /\ result = <<"a", "..c">>

====
